---- MODULE Spec2Model ----
(***************************************************************************)
(* A model of the Apify Store scraper actor: the filter builder            *)
(* (buildFilters), and the actor's main script, which loads the input,     *)
(* runs one search request through an HttpCrawler and pushes the mapped    *)
(* hits to the dataset.                                                    *)
(*                                                                         *)
(* JavaScript values are records with a tag: undefined, null, a string (a  *)
(* sequence of characters) or a number.  A character is a one-character    *)
(* string; the control character U+0001 is written "U+0001".               *)
(***************************************************************************)
EXTENDS Integers, Sequences, FiniteSets, TLC

VARIABLES
    stored,      \* the INPUT record of the key-value store, or Null when there is none
    input,       \* the script's `input`, Undefined until Actor.getInput has returned
    matching,    \* the remote index's records matching the search, in ranking order
    pc,          \* position of the main script
    retryCount,  \* the crawler's request.retryCount
    attempts,    \* number of requestHandler invocations so far
    sent,        \* searchParams of the last search issued, Undefined before the first
    response,    \* response.hits of the last search that returned
    dataset,     \* the default dataset, in push order
    pushes,      \* number of pushData calls that wrote to the dataset
    lastError,   \* what the last requestHandler invocation threw, "none" if it returned
    exitCode,    \* the process exit code, Undefined while running
    result,      \* filters.test.ts: the value returned by the buildFilters call
    tpc,         \* e2e tests: position of the test that calls runActorWithInput
    tmpDir,      \* e2e tests: whether the temporary storage directory exists
    files,       \* e2e tests: the items of the dataset files, in file name order
    child,       \* e2e tests: the spawned `apify run` process
    childError,  \* e2e tests: whether the child has emitted 'error'
    closeCode,   \* e2e tests: the code of the child's 'close' event
    logs,        \* e2e tests: the chunks of stdout and stderr captured so far
    promise,     \* e2e tests: the promise runActorWithInput awaits
    filesRead,   \* e2e tests: number of dataset files read
    datasetItems, \* e2e tests: datasetItems, as runActorWithInput returns them
    thrown,      \* e2e tests: what the runActorWithInput call rejected with
    stable       \* e2e tests: the value returned by sanitizeItems

\* the variables of the e2e tests
testVars == <<tpc, tmpDir, files, child, childError, closeCode, logs, promise,
              filesRead, datasetItems, thrown, stable>>

\* the variables of the main script and of the buildFilters test
mainVars == <<stored, input, matching, pc, retryCount, attempts, sent, response,
              dataset, pushes, lastError, exitCode, result>>

vars == <<mainVars, testVars>>

----------------------------------------------------------------------------
(* Bounds of the model *)

\* longest actorId / username string given to buildFilters
MaxLen == 2

\* longest arbitrary list of records the remote holds, and largest small limit
MaxHits == 3

----------------------------------------------------------------------------
(* JavaScript values *)

Undefined == [tag |-> "undefined"]

Null == [tag |-> "null"]

Str(s) == [tag |-> "string", chars |-> s]

Num(n) == [tag |-> "number", n |-> n]

Min(a, b) == IF a <= b THEN a ELSE b

\* ToBoolean for the values an input field can hold
Truthy(v) ==
    \/ v.tag = "string" /\ v.chars # <<>>
    \/ v.tag = "number" /\ v.n # 0

\* v === undefined || v === null
Nullish(v) == v.tag \in {"undefined", "null"}

----------------------------------------------------------------------------
(* JSON.stringify of a string: ECMAScript QuoteJSONString *)

\* the characters of the model's alphabet below U+0020
ControlChars == {"\n", "\t", "U+0001"}

Chars == {"a", " ", "\"", "\\"} \cup ControlChars

\* QuoteJSONChar escaping the double quote only
QuoteJSONChar_QuoteOnly(c) ==
    IF c = "\"" THEN <<"\\", "\"">> ELSE <<c>>

\* the escape of one code unit
QuoteJSONChar(c) ==
    CASE c = "\"" -> <<"\\", "\"">>
      [] c = "\\" -> <<"\\", "\\">>
      [] c = "\n" -> <<"\\", "n">>
      [] c = "\t" -> <<"\\", "t">>
      [] c = "U+0001" -> <<"\\", "u", "0", "0", "0", "1">>
      [] OTHER -> <<c>>

RECURSIVE QuoteJSONBody(_)
QuoteJSONBody(s) ==
    IF s = <<>> THEN <<>>
    ELSE QuoteJSONChar(Head(s)) \o QuoteJSONBody(Tail(s))

\* JSON.stringify(v) for a string v: the characters of the quoted text
JSONstringify(v) == <<"\"">> \o QuoteJSONBody(v.chars) \o <<"\"">>

----------------------------------------------------------------------------
(* buildFilters *)

\* Array.prototype.join
RECURSIVE Join(_, _)
Join(parts, sep) ==
    IF parts = <<>> THEN <<>>
    ELSE IF Len(parts) = 1 THEN parts[1]
    ELSE parts[1] \o sep \o Join(Tail(parts), sep)

ObjectIDColon == <<"o", "b", "j", "e", "c", "t", "I", "D", ":">>

UsernameColon == <<"u", "s", "e", "r", "n", "a", "m", "e", ":">>

AndSeparator == <<" ", "A", "N", "D", " ">>

\* FilterClauses with the two pushes in the other order
FilterClauses_UsernameFirst(in) ==
    LET f0 == <<>>
        f1 == IF Truthy(in.username)
              THEN Append(f0, UsernameColon \o JSONstringify(in.username))
              ELSE f0
        f2 == IF Truthy(in.actorId)
              THEN Append(f1, ObjectIDColon \o JSONstringify(in.actorId))
              ELSE f1
    IN  f2

\* the filters array after the two conditional pushes
FilterClauses(in) ==
    LET f0 == <<>>
        f1 == IF Truthy(in.actorId)
              THEN Append(f0, ObjectIDColon \o JSONstringify(in.actorId))
              ELSE f0
        f2 == IF Truthy(in.username)
              THEN Append(f1, UsernameColon \o JSONstringify(in.username))
              ELSE f1
    IN  f2

\* buildFilters without the check for an empty filters array
buildFilters_NoEmptyCheck(in) == Str(Join(FilterClauses(in), AndSeparator))

buildFilters(in) ==
    LET filters == FilterClauses(in)
    IN  IF Len(filters) = 0 THEN Undefined
        ELSE Str(Join(filters, AndSeparator))

----------------------------------------------------------------------------
(* The main script: the search request *)

\* hitsPerPage never exceeds this page size
PageSize == 100

\* HttpCrawler's maxRequestRetries, which the constructor call leaves at its default
maxRequestRetries == 3

\* input.query || undefined
QueryParam(in) == IF Truthy(in.query) THEN in.query ELSE Undefined

\* the default applied to an undefined limit only; Math.min takes null as 0
LimitOrDefault_UndefinedOnly(in) ==
    IF in.limit = Undefined THEN Num(PageSize)
    ELSE IF in.limit = Null THEN Num(0) ELSE in.limit

\* input.limit ?? 100
LimitOrDefault(in) == IF Nullish(in.limit) THEN Num(PageSize) ELSE in.limit

\* hitsPerPage without the cap at the page size
HitsPerPage_NoCap(in) == LimitOrDefault(in)

\* Math.max in the place of Math.min
HitsPerPage_Max(in) ==
    Num(IF LimitOrDefault(in).n > PageSize THEN LimitOrDefault(in).n ELSE PageSize)

\* Math.min(input.limit ?? 100, 100)
HitsPerPage(in) == Num(Min(LimitOrDefault(in).n, PageSize))

\* the searchParams object given to client.searchSingleIndex
SearchParams(in) ==
    [query       |-> QueryParam(in),
     filters     |-> buildFilters(in),
     hitsPerPage |-> HitsPerPage(in),
     page        |-> 0]

\* response.hits of a search that succeeds: page 0 of the matching records, which
\* the remote serves in ranking order, hitsPerPage records to a page
SearchHits(params, records) ==
    SubSeq(records, 1, Min(params.hitsPerPage.n, Len(records)))

\* the object literal of the hits.map callback
ToDatasetItem(hit) == [actorId |-> hit.objectID, title |-> hit.title]

\* a map that keeps only the first hit of each objectID
MapHits_Dedup(hits) ==
    LET first(i) == \A j \in 1..(i - 1) : hits[j].objectID # hits[i].objectID
        kept == SelectSeq([i \in 1..Len(hits) |-> i], first)
    IN  [k \in 1..Len(kept) |-> ToDatasetItem(hits[kept[k]])]

\* a map that visits the hits from the last to the first
MapHits_Reversed(hits) ==
    [i \in 1..Len(hits) |-> ToDatasetItem(hits[Len(hits) + 1 - i])]

\* response.hits.map(...)
MapHits(hits) == [i \in 1..Len(hits) |-> ToDatasetItem(hits[i])]

\* pushData(datasetItems): the items are appended in the order given
PushData(ds, items) == ds \o items

\* (await Actor.getInput<Input>()) ?? ({} as Input)
NoInput ==
    [actorId |-> Undefined, username |-> Undefined, query |-> Undefined,
     limit |-> Undefined]

InputOrEmpty(kv) == IF kv = Null THEN NoInput ELSE kv

\* what a requestHandler invocation can throw: the search call fails (the request
\* never gets an answer, the remote answers 4xx or 5xx, or the answer does not
\* parse), or pushData fails
ErrorKinds == {"network", "client-error", "server-error", "malformed", "push"}

----------------------------------------------------------------------------
(* The environment: inputs and remote records *)

\* records of the remote index; one of them has no objectID
Hit(id) == [objectID |-> id, title |-> Str(<<"t">>)]

SmallHits == {Hit(Str(<<"A">>)), Hit(Str(<<"B">>)), Hit(Undefined)}

\* n further records with identifiers of their own
Filler(n) == [i \in 1..n |-> Hit(Str(<<ToString(i)>>))]

SeqsUpTo(S, n) == UNION {[1..k -> S] : k \in 0..n}

\* what the remote can hold: any short list of records, or a few or more than
\* a page of records with identifiers of their own
Matchings ==
    SeqsUpTo(SmallHits, MaxHits) \cup {Filler(MaxHits), Filler(PageSize + 1)}

StringFields(S) == {Undefined, Null} \cup {Str(s) : s \in S}

Limits ==
    {Undefined, Null} \cup {Num(n) : n \in 0..MaxHits}
        \cup {Num(PageSize), Num(PageSize + 1)}

Inputs ==
    [actorId  : StringFields({<<"a">>}),
     username : StringFields({<<"a">>}),
     query    : StringFields({<<>>, <<"a">>}),
     limit    : Limits]

\* the inputs that set nothing but the limit
LimitInputs == {in \in Inputs : in.actorId = Undefined /\ in.username = Undefined
                                  /\ in.query = Undefined}

\* the remotes that hold nothing, or a few records with identifiers of their own
PlainMatchings == {Filler(0), Filler(MaxHits)}

----------------------------------------------------------------------------
(* The promise of runActorWithInput, and the e2e tests' variables at rest *)

Pending == [state |-> "pending", reason |-> Undefined, settled |-> 0]

\* resolve(): settles a pending promise, and does nothing to a settled one
Resolve(p) ==
    IF p.state = "pending"
    THEN [state |-> "fulfilled", reason |-> Undefined, settled |-> p.settled + 1]
    ELSE p

\* reject(reason): settles a pending promise, and does nothing to a settled one
Reject(p, reason) ==
    IF p.state = "pending"
    THEN [state |-> "rejected", reason |-> reason, settled |-> p.settled + 1]
    ELSE p

\* no e2e test is running
NoTest ==
    /\ tpc = "none"
    /\ tmpDir = FALSE
    /\ files = <<>>
    /\ child = "none"
    /\ childError = FALSE
    /\ closeCode = Undefined
    /\ logs = <<>>
    /\ promise = Pending
    /\ filesRead = 0
    /\ datasetItems = <<>>
    /\ thrown = Undefined
    /\ stable = <<>>

----------------------------------------------------------------------------
(* The main script, one action per awaited step *)

\* Either the input sets nothing but the limit and the remote holds any of
\* Matchings, or the input is any of Inputs (or there is none) and the remote
\* holds a plain list: the request depends on the input alone and the response
\* on the page size and the remote alone.
Init ==
    /\ stored \in Inputs \cup {Null}
    /\ matching \in Matchings
    /\ stored \in LimitInputs \/ matching \in PlainMatchings
    /\ input = Undefined
    /\ pc = "start"
    /\ retryCount = 0
    /\ attempts = 0
    /\ sent = Undefined
    /\ response = <<>>
    /\ dataset = <<>>
    /\ pushes = 0
    /\ lastError = "none"
    /\ exitCode = Undefined
    /\ result = Undefined
    /\ NoTest

\* await Actor.init()
ActorInit ==
    /\ pc = "start"
    /\ pc' = "getInput"
    /\ UNCHANGED <<stored, input, matching, retryCount, attempts, sent, response,
                   dataset, pushes, lastError, exitCode, result,
                   testVars>>

\* const input = (await Actor.getInput<Input>()) ?? ({} as Input)
GetInput ==
    /\ pc = "getInput"
    /\ input' = InputOrEmpty(stored)
    /\ pc' = "proxy"
    /\ UNCHANGED <<stored, matching, retryCount, attempts, sent, response,
                   dataset, pushes, lastError, exitCode, result,
                   testVars>>

\* await Actor.createProxyConfiguration({ checkAccess: true })
CreateProxyConfiguration ==
    /\ pc = "proxy"
    /\ pc' = "crawl"
    /\ UNCHANGED <<stored, input, matching, retryCount, attempts, sent, response,
                   dataset, pushes, lastError, exitCode, result,
                   testVars>>

\* a top-level await outside crawler.run rejects: nothing catches it, the
\* process ends with a non-zero code
TopLevelRejects ==
    /\ pc \in {"start", "getInput", "proxy"}
    /\ pc' = "crashed"
    /\ exitCode' = Num(1)
    /\ UNCHANGED <<stored, input, matching, retryCount, attempts, sent, response,
                   dataset, pushes, lastError, result,
                   testVars>>

\* a handler that throws after pushData has written, so that the crawler
\* retries a request whose items are in the dataset
RequestHandlerReturns_ThrowsAfterPush ==
    /\ pc = "crawl"
    /\ LET params == SearchParams(input)
           hits == SearchHits(params, matching)
       IN  /\ sent' = params
           /\ response' = hits
           /\ dataset' = PushData(dataset, MapHits(hits))
    /\ pushes' = pushes + 1
    /\ attempts' = attempts + 1
    /\ lastError' = "push"
    /\ IF retryCount < maxRequestRetries
       THEN retryCount' = retryCount + 1 /\ pc' = "crawl"
       ELSE retryCount' = retryCount /\ pc' = "ran"
    /\ UNCHANGED <<stored, input, matching, exitCode, result,
                   testVars>>

\* requestHandler runs to its end: search, map, pushData
RequestHandlerReturns ==
    /\ pc = "crawl"
    /\ LET params == SearchParams(input)
           hits == SearchHits(params, matching)
       IN  /\ sent' = params
           /\ response' = hits
           /\ dataset' = PushData(dataset, MapHits(hits))
    /\ pushes' = pushes + 1
    /\ attempts' = attempts + 1
    /\ lastError' = "none"
    /\ pc' = "ran"
    /\ UNCHANGED <<stored, input, matching, retryCount, exitCode, result,
                   testVars>>

\* the retry test off by one: one retry more than maxRequestRetries
RequestHandlerThrows_OneMore ==
    /\ pc = "crawl"
    /\ \E kind \in ErrorKinds :
        /\ lastError' = kind
        /\ sent' = SearchParams(input)
        /\ response' = IF kind = "push" THEN SearchHits(sent', matching)
                       ELSE response
    /\ attempts' = attempts + 1
    /\ IF retryCount <= maxRequestRetries
       THEN retryCount' = retryCount + 1 /\ pc' = "crawl"
       ELSE retryCount' = retryCount /\ pc' = "ran"
    /\ UNCHANGED <<stored, input, matching, dataset, pushes, exitCode, result,
                   testVars>>

\* a crawler that lets the error of the last retry reject crawler.run
RequestHandlerThrows_Escapes ==
    /\ pc = "crawl"
    /\ \E kind \in ErrorKinds :
        /\ lastError' = kind
        /\ sent' = SearchParams(input)
        /\ response' = IF kind = "push" THEN SearchHits(sent', matching)
                       ELSE response
    /\ attempts' = attempts + 1
    /\ IF retryCount < maxRequestRetries
       THEN retryCount' = retryCount + 1 /\ pc' = "crawl" /\ exitCode' = exitCode
       ELSE retryCount' = retryCount /\ pc' = "crashed" /\ exitCode' = Num(1)
    /\ UNCHANGED <<stored, input, matching, dataset, pushes, result,
                   testVars>>

\* a crawler that gives the request up at once after a client-error answer
RequestHandlerThrows_ClientErrorAborts ==
    /\ pc = "crawl"
    /\ \E kind \in ErrorKinds :
        /\ lastError' = kind
        /\ sent' = SearchParams(input)
        /\ response' = IF kind = "push" THEN SearchHits(sent', matching)
                       ELSE response
        /\ IF retryCount < maxRequestRetries /\ kind # "client-error"
           THEN retryCount' = retryCount + 1 /\ pc' = "crawl"
           ELSE retryCount' = retryCount /\ pc' = "ran"
    /\ attempts' = attempts + 1
    /\ UNCHANGED <<stored, input, matching, dataset, pushes, exitCode, result,
                   testVars>>

\* requestHandler throws: the crawler retries the request while its retryCount
\* is below maxRequestRetries, and gives the request up after that
RequestHandlerThrows ==
    /\ pc = "crawl"
    /\ \E kind \in ErrorKinds :
        /\ lastError' = kind
        /\ sent' = SearchParams(input)
        /\ response' = IF kind = "push" THEN SearchHits(sent', matching)
                       ELSE response
    /\ attempts' = attempts + 1
    /\ IF retryCount < maxRequestRetries
       THEN retryCount' = retryCount + 1 /\ pc' = "crawl"
       ELSE retryCount' = retryCount /\ pc' = "ran"
    /\ UNCHANGED <<stored, input, matching, dataset, pushes, exitCode, result,
                   testVars>>

\* an exit that is only reached when the dataset holds an item
ActorExit_NeedsItems ==
    /\ pc = "ran"
    /\ dataset # <<>>
    /\ pc' = "exited"
    /\ exitCode' = Num(0)
    /\ UNCHANGED <<stored, input, matching, retryCount, attempts, sent, response,
                   dataset, pushes, lastError, result,
                   testVars>>

\* await Actor.exit()
ActorExit ==
    /\ pc = "ran"
    /\ pc' = "exited"
    /\ exitCode' = Num(0)
    /\ UNCHANGED <<stored, input, matching, retryCount, attempts, sent, response,
                   dataset, pushes, lastError, result,
                   testVars>>

Next ==
    \/ ActorInit
    \/ GetInput
    \/ CreateProxyConfiguration
    \/ TopLevelRejects
    \/ RequestHandlerReturns
    \/ RequestHandlerThrows
    \/ ActorExit

Spec == Init /\ [][Next]_vars

\* the runtime keeps running the script and the crawler until the process ends
FairSpec == Spec /\ WF_vars(Next)

----------------------------------------------------------------------------
(* test/filters.test.ts: buildFilters called on its own *)

\* every string of at most MaxLen characters
FilterStrings == SeqsUpTo(Chars, MaxLen)

FilterInputs ==
    [actorId  : StringFields(FilterStrings),
     username : StringFields(FilterStrings),
     query    : {Undefined},
     limit    : {Undefined}]

InitFilters ==
    /\ input \in FilterInputs
    /\ stored = Null
    /\ matching = <<>>
    /\ pc = "test"
    /\ retryCount = 0
    /\ attempts = 0
    /\ sent = Undefined
    /\ response = <<>>
    /\ dataset = <<>>
    /\ pushes = 0
    /\ lastError = "none"
    /\ exitCode = Undefined
    /\ result = Undefined
    /\ NoTest

\* const result = buildFilters(input)
CallBuildFilters ==
    /\ pc = "test"
    /\ result' = buildFilters(input)
    /\ pc' = "tested"
    /\ UNCHANGED <<stored, input, matching, retryCount, attempts, sent, response,
                   dataset, pushes, lastError, exitCode,
                   testVars>>

NextFilters == CallBuildFilters

SpecFilters == InitFilters /\ [][NextFilters]_vars

----------------------------------------------------------------------------
(* test/e2e: runActorWithInput and sanitizeItems *)

\* most chunks of output the child writes
MaxChunks == 2

\* characters pictureUrl.slice(0, 20) keeps
SliceLen == 20

\* a pictureUrl of one character more than the slice keeps
LongUrl == Str([i \in 1..(SliceLen + 1) |-> "u"])

\* the items a dataset file can hold
TestItems ==
    [actorId     : {Str(<<"A">>), Str(<<"B">>)},
     title       : {Str(<<"x">>), Str(<<"y">>)},
     pictureUrl  : {LongUrl},
     description : {Str(<<"d">>)}]

\* the codes of a 'close' event; null when a signal ended the child
CloseCodes == {Num(0), Num(1), Null}

\* the orders in which readdir can list the files
ReaddirOrders(s) ==
    LET n == Len(s)
        bijections == {f \in [1..n -> 1..n] : \A i, j \in 1..n : i # j => f[i] # f[j]}
    IN  {[i \in 1..n |-> s[f[i]]] : f \in bijections}

\* String.prototype.slice(0, n)
Slice(v, n) == Str(SubSeq(v.chars, 1, Min(n, Len(v.chars))))

\* the object literal of the items.map callback of sanitizeItems
ToStableItem(it) ==
    [actorId    |-> it.actorId,
     title      |-> it.title,
     pictureUrl |-> Slice(it.pictureUrl, SliceLen)]

\* the collation rank of a character of an identifier
Rank(c) == IF c = "A" THEN 1 ELSE 2

\* a.localeCompare(b): negative, 0 or positive
RECURSIVE localeCompare(_, _)
localeCompare(a, b) ==
    IF a = <<>> /\ b = <<>> THEN 0
    ELSE IF a = <<>> THEN -1
    ELSE IF b = <<>> THEN 1
    ELSE IF Rank(Head(a)) # Rank(Head(b)) THEN Rank(Head(a)) - Rank(Head(b))
    ELSE localeCompare(Tail(a), Tail(b))

\* the comparator given to sort
CompareActorId(a, b) == localeCompare(a.actorId.chars, b.actorId.chars)

\* Array.prototype.sort, which is stable: x goes behind every element that does
\* not compare greater than it
RECURSIVE InsertStable(_, _)
InsertStable(s, x) ==
    IF s = <<>> THEN <<x>>
    ELSE IF CompareActorId(Head(s), x) <= 0 THEN <<Head(s)>> \o InsertStable(Tail(s), x)
    ELSE <<x>> \o s

RECURSIVE SortByActorId(_)
SortByActorId(s) ==
    IF s = <<>> THEN <<>>
    ELSE InsertStable(SortByActorId(SubSeq(s, 1, Len(s) - 1)), s[Len(s)])

sanitizeItems(its) == SortByActorId([i \in 1..Len(its) |-> ToStableItem(its[i])])

\* runActorWithInput has made the temporary directory
InitTest ==
    /\ stored = Null
    /\ input = Undefined
    /\ matching = <<>>
    /\ pc = "none"
    /\ retryCount = 0
    /\ attempts = 0
    /\ sent = Undefined
    /\ response = <<>>
    /\ dataset = <<>>
    /\ pushes = 0
    /\ lastError = "none"
    /\ exitCode = Undefined
    /\ result = Undefined
    /\ tpc = "setup"
    /\ tmpDir = TRUE
    /\ files \in SeqsUpTo(TestItems, MaxHits)
    /\ child = "none"
    /\ childError = FALSE
    /\ closeCode = Undefined
    /\ logs = <<>>
    /\ promise = Pending
    /\ filesRead = 0
    /\ datasetItems = <<>>
    /\ thrown = Undefined
    /\ stable = <<>>

\* the two fs.mkdir, the fs.writeFile of INPUT.json and the spawn
SpawnActor ==
    /\ tpc = "setup"
    /\ tpc' = "waiting"
    /\ child' = "running"
    /\ UNCHANGED <<mainVars, tmpDir, files, childError, closeCode, logs, promise,
                   filesRead, datasetItems, thrown, stable>>

\* fs.mkdir or fs.writeFile rejects: the finally block removes the directory
SetupThrows ==
    /\ tpc = "setup"
    /\ tmpDir' = FALSE
    /\ thrown' = [kind |-> "fs"]
    /\ tpc' = "threw"
    /\ UNCHANGED <<mainVars, files, child, childError, closeCode, logs, promise,
                   filesRead, datasetItems, stable>>

\* child.stdout.on("data") and child.stderr.on("data")
ChildData ==
    /\ child = "running"
    /\ Len(logs) < MaxChunks
    /\ logs' = Append(logs, "chunk")
    /\ UNCHANGED <<mainVars, tpc, tmpDir, files, child, childError, closeCode,
                   promise, filesRead, datasetItems, thrown, stable>>

\* child.on("error", reject)
ChildError ==
    /\ child = "running"
    /\ ~childError
    /\ childError' = TRUE
    /\ promise' = Reject(promise, [kind |-> "spawn"])
    /\ UNCHANGED <<mainVars, tpc, tmpDir, files, child, closeCode, logs,
                   filesRead, datasetItems, thrown, stable>>

\* a close handler that resolves whatever the code
ChildClose_AlwaysResolves ==
    /\ child = "running"
    /\ \E code \in CloseCodes :
        /\ closeCode' = code
        /\ promise' = Resolve(promise)
    /\ child' = "closed"
    /\ UNCHANGED <<mainVars, tpc, tmpDir, files, childError, logs,
                   filesRead, datasetItems, thrown, stable>>

\* child.on("close", (code) => ...)
ChildClose ==
    /\ child = "running"
    /\ \E code \in CloseCodes :
        /\ closeCode' = code
        /\ promise' = IF code = Num(0) THEN Resolve(promise)
                      ELSE Reject(promise, [kind |-> "exit", code |-> code,
                                            logs |-> logs])
    /\ child' = "closed"
    /\ UNCHANGED <<mainVars, tpc, tmpDir, files, childError, logs,
                   filesRead, datasetItems, thrown, stable>>

\* the await throws the rejection: the finally block removes the directory
AwaitRejects ==
    /\ tpc = "waiting"
    /\ promise.state = "rejected"
    /\ thrown' = promise.reason
    /\ tmpDir' = FALSE
    /\ tpc' = "threw"
    /\ UNCHANGED <<mainVars, files, child, childError, closeCode, logs, promise,
                   filesRead, datasetItems, stable>>

\* the await returns: the files are read in the order readdir lists them, the
\* finally block removes the directory, the items and the logs are returned
ReadDataset ==
    /\ tpc = "waiting"
    /\ promise.state = "fulfilled"
    /\ datasetItems' \in ReaddirOrders(files)
    /\ filesRead' = Len(files)
    /\ tmpDir' = FALSE
    /\ tpc' = "returned"
    /\ UNCHANGED <<mainVars, files, child, childError, closeCode, logs, promise,
                   thrown, stable>>

\* fs.readdir, fs.readFile or JSON.parse throws: the finally block removes the
\* directory
ReadThrows ==
    /\ tpc = "waiting"
    /\ promise.state = "fulfilled"
    /\ filesRead' \in 0..Len(files)
    /\ thrown' = [kind |-> "fs"]
    /\ tmpDir' = FALSE
    /\ tpc' = "threw"
    /\ UNCHANGED <<mainVars, files, child, childError, closeCode, logs, promise,
                   datasetItems, stable>>

\* snapshot.test.ts: const stable = sanitizeItems(datasetItems)
Sanitize ==
    /\ tpc = "returned"
    /\ stable' = sanitizeItems(datasetItems)
    /\ tpc' = "sanitized"
    /\ UNCHANGED <<mainVars, tmpDir, files, child, childError, closeCode, logs,
                   promise, filesRead, datasetItems, thrown>>

NextTest ==
    \/ SpawnActor
    \/ SetupThrows
    \/ ChildData
    \/ ChildError
    \/ ChildClose
    \/ AwaitRejects
    \/ ReadDataset
    \/ ReadThrows
    \/ Sanitize

SpecTest == InitTest /\ [][NextTest]_vars

----------------------------------------------------------------------------
(* Claims about buildFilters, checked under SpecFilters *)

\* a field holds a value buildFilters filters on: a non-empty string
Present(v) == v.tag = "string" /\ v.chars # <<>>

C2_Clause(name, v) == name \o <<":">> \o JSONstringify(v)

\* C2: buildFilters emits one clause per present field, objectID:"<actorId>"
\* before username:"<username>"; one field present gives exactly its clause, both
\* present give exactly the two clauses joined by " AND ", actorId first.
C2_ClausesInFixedOrder ==
    pc = "tested" =>
        LET a == input.actorId
            u == input.username
            idClause == C2_Clause(<<"o", "b", "j", "e", "c", "t", "I", "D">>, a)
            userClause == C2_Clause(<<"u", "s", "e", "r", "n", "a", "m", "e">>, u)
        IN  /\ (Present(a) /\ ~Present(u)) => result = Str(idClause)
            /\ (~Present(a) /\ Present(u)) => result = Str(userClause)
            /\ (Present(a) /\ Present(u)) =>
                  /\ result = Str(idClause \o <<" ", "A", "N", "D", " ">> \o userClause)
                  /\ result # Str(userClause \o <<" ", "A", "N", "D", " ">> \o idClause)

C2_Witness ==
    /\ pc = "tested"
    /\ input.actorId = Str(<<"a", " ">>)
    /\ input.username = Str(<<"a">>)
    /\ result.tag = "string"

\* the text between the surrounding double quotes of a result that is one
\* clause: what follows the colon ending the field name, less the two quotes
InnerText(r) ==
    LET colon == CHOOSE i \in 1..Len(r.chars) :
                     r.chars[i] = ":" /\ \A j \in 1..(i - 1) : r.chars[j] # ":"
    IN  SubSeq(r.chars, colon + 2, Len(r.chars) - 1)

\* the single present field of the input
OnlyField == IF Present(input.actorId) THEN input.actorId ELSE input.username

ExactlyOnePresent == Present(input.actorId) # Present(input.username)

RECURSIVE EscapeEach(_, _)
\* the concatenation of esc[c] over the characters c of s
EscapeEach(esc, s) ==
    IF s = <<>> THEN <<>> ELSE esc[Head(s)] \o EscapeEach(esc, Tail(s))

\* the escaping the claim states: a backslash before each backslash and each
\* double quote, every other character as it is
BackslashEscape == [c \in Chars |-> IF c \in {"\\", "\""} THEN <<"\\", c>> ELSE <<c>>]

\* the escaping of JSON: as above, and each control character as its escape
\* sequence, \n, \t or \u and four hexadecimal digits
JsonEscape ==
    [c \in Chars |->
        IF c = "\n" THEN <<"\\", "n">>
        ELSE IF c = "\t" THEN <<"\\", "t">>
        ELSE IF c = "U+0001" THEN <<"\\", "u", "0", "0", "0", "1">>
        ELSE BackslashEscape[c]]

\* C3 as claimed: the text between the quotes is the value with a backslash before
\* each backslash and double quote and no other character changed, control
\* characters included.
C3_OnlyQuoteAndBackslashChanged ==
    (pc = "tested" /\ ExactlyOnePresent) =>
        InnerText(result) = EscapeEach(BackslashEscape, OnlyField.chars)

\* C3 amended: the text between the quotes is the value with a backslash before
\* each backslash and double quote, each control character replaced by its JSON
\* escape sequence, and no other character changed.
C3_JsonEscaped ==
    (pc = "tested" /\ ExactlyOnePresent) =>
        /\ result.chars[Len(result.chars) - Len(InnerText(result)) - 1] = "\""
        /\ result.chars[Len(result.chars)] = "\""
        /\ InnerText(result) = EscapeEach(JsonEscape, OnlyField.chars)

C3_Witness ==
    /\ pc = "tested"
    /\ ~Present(input.actorId)
    /\ input.username = Str(<<"\\", "\n">>)
    /\ InnerText(result) = <<"\\", "\\", "\\", "n">>

----------------------------------------------------------------------------
(* Claims about a run of the actor, checked under Spec and FairSpec *)

\* crawler.run is over and the last requestHandler invocation returned
Returned == pc \in {"ran", "exited"} /\ lastError = "none"

\* crawler.run is over and every requestHandler invocation threw
GaveUp == pc \in {"ran", "exited"} /\ lastError # "none"

\* every record has an identifier and no two records share one
DistinctIdentified(records) ==
    /\ \A i \in 1..Len(records) : Present(records[i].objectID)
    /\ \A i, j \in 1..Len(records) :
           i # j => records[i].objectID # records[j].objectID

ActorIds(items) == {items[i].actorId : i \in 1..Len(items)}

\* C4 as claimed: with limit N and a remote serving full pages of records with
\* identifiers of their own, the run emits exactly min(N, totalAvailable)
\* distinct items.
C4_EmitsMinLimitTotal ==
    (Returned /\ input.limit.tag = "number" /\ DistinctIdentified(matching)) =>
        /\ Len(dataset) = Min(input.limit.n, Len(matching))
        /\ Cardinality(ActorIds(dataset)) = Min(input.limit.n, Len(matching))

\* C4 amended: with limit N the run emits exactly min(N, 100, totalAvailable)
\* items, the first records of the remote, distinct when the remote's are: only
\* page 0 is fetched, of at most 100 records.
C4_EmitsMinLimitPageTotal ==
    (Returned /\ input.limit.tag = "number") =>
        LET n == Min(Min(input.limit.n, PageSize), Len(matching))
        IN  /\ Len(dataset) = n
            /\ \A i \in 1..n : dataset[i].actorId = matching[i].objectID
            /\ DistinctIdentified(matching) => Cardinality(ActorIds(dataset)) = n

C4_Witness ==
    /\ Returned
    /\ input.limit = Num(PageSize + 1)
    /\ Len(matching) > PageSize
    /\ DistinctIdentified(matching)
    /\ Len(dataset) = PageSize

\* the input with every null field left out
NullsOmitted(in) ==
    [f \in DOMAIN in |-> IF in[f] = Null THEN Undefined ELSE in[f]]

\* C5: a run whose input holds null in some of actorId, username, query and
\* limit issues the search request (query, filters, page size) and emits the
\* dataset of the run whose input omits those fields.
C5_NullAsOmitted ==
    /\ attempts > 0 => sent = SearchParams(NullsOmitted(input))
    /\ Returned =>
          dataset = MapHits(SearchHits(SearchParams(NullsOmitted(input)), matching))

C5_Witness ==
    /\ Returned
    /\ input.actorId = Null
    /\ input.username = Null
    /\ input.query = Null
    /\ input.limit = Null
    /\ sent = [query |-> Undefined, filters |-> Undefined,
               hitsPerPage |-> Num(PageSize), page |-> 0]
    /\ Len(dataset) = MaxHits

\* number of positions of seq at which key(seq[i]) = id
Count(seq, key(_), id) == Cardinality({i \in 1..Len(seq) : key(seq[i]) = id})

ActorIdOf(item) == item.actorId

ObjectIDOf(hit) == hit.objectID

\* C6 as claimed: the emitted dataset holds at most one item per identifier.
C6_AtMostOnePerIdentifier ==
    Returned =>
        \A i, j \in 1..Len(dataset) :
            i # j => dataset[i].actorId # dataset[j].actorId

\* C6 amended: the emitted dataset holds one item per record the remote
\* returned, every occurrence of a repeated record included: an identifier is in
\* the dataset as often as in the response, and so at most once exactly when
\* the response holds it at most once.
C6_OneItemPerReturnedRecord ==
    Returned =>
        /\ Len(dataset) = Len(response)
        /\ \A h \in SmallHits :
               Count(dataset, ActorIdOf, h.objectID)
                   = Count(response, ObjectIDOf, h.objectID)

C6_Witness ==
    /\ Returned
    /\ Len(response) = 2
    /\ response[1] = response[2]
    /\ Len(dataset) = 2
    /\ dataset[1].actorId = dataset[2].actorId

\* C7: every emitted item has a non-empty actorId, and a page of one record
\* without identifier and two valid records yields exactly the two valid items.
C7_NoItemWithoutIdentifier ==
    Returned =>
        /\ \A i \in 1..Len(dataset) : Present(dataset[i].actorId)
        /\ Len(dataset) = Cardinality({i \in 1..Len(response) :
                                          Present(response[i].objectID)})

\* C8: when every requestHandler invocation throws, the run makes exactly
\* maxRequestRetries + 1 invocations and then stops, with nothing emitted; no
\* run makes more invocations, and crawler.run always comes to its end.
C8_RetriesExhaust ==
    /\ [](GaveUp => (attempts = maxRequestRetries + 1 /\ dataset = <<>>))
    /\ [](attempts <= maxRequestRetries + 1)
    /\ (pc = "crawl") ~> (pc = "exited")

C8_Witness ==
    /\ pc = "exited"
    /\ lastError = "network"
    /\ attempts = maxRequestRetries + 1
    /\ retryCount = maxRequestRetries
    /\ Len(matching) > 0
    /\ dataset = <<>>

\* C9: the dataset holds the item of each returned record at the record's
\* position: nothing is reordered, dropped or inserted.
C9_OrderPreserved ==
    Returned =>
        /\ DOMAIN dataset = DOMAIN response
        /\ \A i \in DOMAIN response :
               /\ dataset[i].actorId = response[i].objectID
               /\ dataset[i].title = response[i].title

C9_Witness ==
    /\ Returned
    /\ Len(response) = MaxHits
    /\ response[1].objectID = Str(<<"B">>)
    /\ response[2].objectID = Str(<<"A">>)
    /\ dataset[1].actorId = Str(<<"B">>)
    /\ dataset[2].actorId = Str(<<"A">>)

\* C10: when the search returns zero hits the run completes normally: it
\* reaches Actor.exit, the exit code is 0 and the dataset is empty.
C10_ZeroHitsCompletes ==
    (pc = "ran" /\ lastError = "none" /\ response = <<>>)
        ~> (pc = "exited" /\ exitCode = Num(0) /\ dataset = <<>>)

C10_Witness ==
    /\ pc = "exited"
    /\ exitCode = Num(0)
    /\ lastError = "none"
    /\ attempts > 0
    /\ Len(matching) > 0
    /\ response = <<>>
    /\ dataset = <<>>

\* C11 as claimed: no failure escapes the script as an uncaught error, be it of
\* input loading, proxy configuration, the search call or the dataset push.
C11_NoUncaughtFailure == pc # "crashed"

\* C11 amended: a failure of the search call or of pushData does not escape:
\* the crawler catches what requestHandler throws, crawler.run returns and the
\* process exits with code 0. A failure of Actor.init, Actor.getInput or
\* Actor.createProxyConfiguration is uncaught: the process ends with code 1
\* before any requestHandler invocation, with nothing emitted. Every run ends
\* one of the two ways, and an item once in the dataset stays in it.
C11_OnlyHandlerFailuresCaught ==
    /\ [](pc = "crashed" => (attempts = 0 /\ dataset = <<>> /\ exitCode = Num(1)))
    /\ [](attempts > 0 => pc # "crashed")
    /\ [](pc = "exited" => exitCode = Num(0))
    /\ [][/\ Len(dataset') >= Len(dataset)
          /\ SubSeq(dataset', 1, Len(dataset)) = dataset]_vars
    /\ <>(pc \in {"exited", "crashed"})

C11_Witness ==
    /\ pc = "exited"
    /\ exitCode = Num(0)
    /\ lastError = "push"
    /\ attempts = maxRequestRetries + 1
    /\ Len(response) > 0

\* C12 as claimed: after a client-error answer the request is not retried.
C12_ClientErrorNotRetried == lastError = "client-error" => pc # "crawl"

\* C12 amended: a client-error answer is retried like every other error that
\* requestHandler throws: the request is tried again until maxRequestRetries
\* retries are spent, and given up only after maxRequestRetries + 1 invocations.
C12_EveryErrorRetried ==
    \A kind \in ErrorKinds :
        lastError = kind =>
            /\ pc = "crawl" <=> attempts <= maxRequestRetries
            /\ pc \in {"ran", "exited"} <=> attempts = maxRequestRetries + 1
            /\ retryCount = Min(attempts, maxRequestRetries)

C12_Witness ==
    /\ lastError = "client-error"
    /\ pc = "crawl"
    /\ attempts = 1
    /\ retryCount = 1

\* C13: the page size of the search request is 100 when limit is absent or
\* null and min(limit, 100) when limit is a non-negative integer: never above
\* 100, never negative.
C13_PageSizeClamped ==
    attempts > 0 =>
        /\ Nullish(input.limit) => sent.hitsPerPage = Num(PageSize)
        /\ input.limit.tag = "number" =>
               sent.hitsPerPage = Num(IF input.limit.n < PageSize THEN input.limit.n
                                      ELSE PageSize)
        /\ sent.hitsPerPage.n \in 0..PageSize

C13_Witness ==
    /\ attempts > 0
    /\ input.limit = Num(PageSize + 1)
    /\ sent.hitsPerPage = Num(PageSize)

----------------------------------------------------------------------------
(* Claims about the e2e test helper and the snapshot test *)

\* the runActorWithInput call has settled
CallSettled == tpc \in {"returned", "threw", "sanitized"}

\* the call has returned its items and logs
CallReturned == tpc \in {"returned", "sanitized"}

\* the child has failed: an 'error' event, or a 'close' with a code that is not 0
ChildFailed == childError \/ (child = "closed" /\ closeCode # Num(0))

\* C15: runActorWithInput returns dataset items only after the child has closed
\* with exit code 0; after an 'error' event or a close with a non-zero code the
\* promise is rejected and the call throws, the rejection made for a non-zero
\* code carries that code and the captured logs, and no dataset file is read;
\* the promise settles once, whatever the order of the events; and whenever the
\* call has settled the temporary directory has been removed.
C15_ReturnsOnlyAfterCleanExit ==
    /\ CallReturned =>
        /\ child = "closed" /\ closeCode = Num(0) /\ ~childError
        /\ datasetItems \in ReaddirOrders(files)
    /\ ChildFailed =>
        /\ promise.state = "rejected"
        /\ ~CallReturned
        /\ tpc # "waiting" => tpc = "threw" /\ thrown = promise.reason
    /\ (child = "closed" /\ closeCode # Num(0) /\ ~childError) =>
        promise.reason = [kind |-> "exit", code |-> closeCode, logs |-> logs]
    /\ promise.state # "fulfilled" => filesRead = 0
    /\ promise.settled = IF childError \/ child = "closed" THEN 1 ELSE 0
    /\ CallSettled => ~tmpDir

\* an 'error' event, then output, then a close with code 0: the call has thrown
\* the spawn error, with files in the dataset directory left unread and the
\* temporary directory removed
C15_Witness ==
    /\ childError
    /\ child = "closed"
    /\ closeCode = Num(0)
    /\ logs # <<>>
    /\ files # <<>>
    /\ tpc = "threw"
    /\ thrown = [kind |-> "spawn"]
    /\ filesRead = 0
    /\ ~tmpDir

\* sorted ascending by actorId
SortedByActorId(s) ==
    \A i, j \in 1..Len(s) : i < j => CompareActorId(s[i], s[j]) <= 0

\* C16 as claimed: sanitizeItems gives the same output sequence for every
\* ordering of the same input items: the result is sorted ascending by actorId,
\* has one entry per input item, and does not depend on the order in which the
\* dataset files were read.
C16_SameOutputForEveryOrdering ==
    tpc = "sanitized" =>
        /\ SortedByActorId(stable)
        /\ Len(stable) = Len(datasetItems)
        /\ \A order \in ReaddirOrders(files) : sanitizeItems(order) = stable

====
